---- MODULE Spec2Model ----
(***************************************************************************)
(* aardvark-dns: the configuration loader (src/config/mod.rs), the lookups *)
(* of the Backend it builds, and the start-up of Run::exec                 *)
(* (src/commands/run.rs).                                                  *)
(*                                                                         *)
(* Text is modelled by what the parser does with it:                       *)
(*   - a file is a sequence of lines (content.split('\n'));                *)
(*   - a line is the sequence of its space-separated fields;               *)
(*   - a field is the sequence of its comma-separated items, the empty     *)
(*     string being the empty sequence << >>.                              *)
(* So "c1 10.0.0.2  a,b" is << <<"c1">>, <<"10.0.0.2">>, << >>,            *)
(* <<"a","b">> >> and the empty line is << << >> >>.                       *)
(***************************************************************************)
EXTENDS Integers, Sequences, FiniteSets, TLC

VARIABLES
    dir,      \* the descriptor directory: its entries, in the order read_dir yields them
    phase,    \* parse_configs: "idle", "loop" (inside for config in configs), "done"
    snap,     \* the directory as it was when read_dir listed it
    queue,    \* the entries read_dir has still to yield
    acc,      \* the tables parse_configs fills
    res,      \* what parse_configs returned
    prev,     \* what the previous call of parse_configs returned
    ppc,      \* Run::exec, parent process
    cpc,      \* Run::exec, child process
    pwait,    \* the addresses the parent has still to wait for
    cbind,    \* the addresses the child has still to bind
    ready,    \* the addresses on which a listener of the child is live
    wasReady  \* the addresses that have been ready at some time

vars == <<dir, phase, snap, queue, acc, res, prev, ppc, cpc, pwait, cbind, ready, wasReady>>

loaderVars == <<phase, snap, queue, acc, res, prev>>
runVars == <<ppc, cpc, pwait, cbind, ready, wasReady>>

-----------------------------------------------------------------------------
(* Bounds of the model *)

\* container lines (and blank lines) appended to the descriptors, in total
MaxLines == 2

-----------------------------------------------------------------------------
(* Literals *)

V4Literals == {"10.0.0.1", "10.0.1.1", "10.0.0.2", "10.0.0.3", "8.8.8.8"}
V6Literals == {"fd00::1", "fd00::2"}

AARDVARK_PID_FILE == "aardvark.pid"

Networks == {"n1", "n2"}

\* IpAddr::V4 / IpAddr::V6
V4(lit) == [fam |-> 4, lit |-> lit]
V6(lit) == [fam |-> 6, lit |-> lit]

None == [some |-> FALSE]
Some(v) == [some |-> TRUE, val |-> v]

Err(kind) == [ok |-> FALSE, err |-> kind]

Range(s) == {s[i] : i \in DOMAIN s}

\* HashMap::get(k) with a default, and HashMap::insert
Get(m, k, default) == IF k \in DOMAIN m THEN m[k] ELSE default
Put(m, k, v) == (k :> v) @@ m

\* str::split(','): the empty string yields one empty item
SplitComma(field) == IF field = << >> THEN <<"">> ELSE field

\* str::to_lowercase on the names used here
to_lowercase(s) ==
    CASE s = "B" -> "b"
      [] s = "C1" -> "c1"
      [] OTHER -> s

\* LowerAll that keeps the case as written
LowerAll_Keep(items) == items

LowerAll(items) == [i \in DOMAIN items |-> to_lowercase(items[i])]

\* <Ipv4Addr as FromStr>::parse over a list, collected into a Result
ParseV4List(items) ==
    IF \A i \in DOMAIN items : items[i] \in V4Literals
    THEN [ok |-> TRUE, val |-> [i \in DOMAIN items |-> V4(items[i])]]
    ELSE Err("Other")

ParseV6List(items) ==
    IF \A i \in DOMAIN items : items[i] \in V6Literals
    THEN [ok |-> TRUE, val |-> [i \in DOMAIN items |-> V6(items[i])]]
    ELSE Err("Other")

\* <IpAddr as FromStr>::parse over a list
ParseIpList(items) ==
    IF \A i \in DOMAIN items : items[i] \in V4Literals \cup V6Literals
    THEN [ok |-> TRUE,
          val |-> [i \in DOMAIN items |->
                     IF items[i] \in V4Literals THEN V4(items[i]) ELSE V6(items[i])]]
    ELSE Err("Other")

-----------------------------------------------------------------------------
(* parse_config: one descriptor file *)

IsEmptyLine(line) == line = << << >> >>

\* the first non-empty line: line.split(','), every item parsed as an IpAddr.
\* An item that holds a space (a line of several fields) does not parse.
ParseBindLine(line) ==
    IF Len(line) # 1 THEN Err("Other") ELSE ParseIpList(SplitComma(line[1]))

\* ParseCtrLine that takes the fifth field of a line of five or more fields
ParseCtrLine_AtLeastFive(parts) ==
    IF Len(parts) < 4 THEN Err("InvalidData")
    ELSE
    LET v4_addrs == IF parts[2] # << >> THEN ParseV4List(SplitComma(parts[2]))
                    ELSE [ok |-> TRUE, val |-> << >>]
        v6_addrs == IF parts[3] # << >> THEN ParseV6List(SplitComma(parts[3]))
                    ELSE [ok |-> TRUE, val |-> << >>]
        aliases == LowerAll(SplitComma(parts[4]))
        dns == IF Len(parts) >= 5 /\ parts[5] # << >>
               THEN ParseIpList(SplitComma(parts[5]))
               ELSE [ok |-> TRUE, val |-> << >>]
    IN  IF ~v4_addrs.ok THEN Err("Other")
        ELSE IF ~v6_addrs.ok THEN Err("Other")
        ELSE IF aliases = << >> THEN Err("InvalidData")
        ELSE IF ~dns.ok THEN Err("Other")
        ELSE [ok |-> TRUE,
              val |-> [id |-> LowerAll(parts[1]),
                       v4 |-> v4_addrs.val,
                       v6 |-> v6_addrs.val,
                       aliases |-> aliases,
                       dns_servers |-> IF Len(parts) >= 5 /\ parts[5] # << >>
                                       THEN Some(dns.val) ELSE None]]

\* every later non-empty line: one CtrEntry
ParseCtrLine(parts) ==
    IF Len(parts) < 4 THEN Err("InvalidData")
    ELSE
    LET v4_addrs == IF parts[2] # << >> THEN ParseV4List(SplitComma(parts[2]))
                    ELSE [ok |-> TRUE, val |-> << >>]
        v6_addrs == IF parts[3] # << >> THEN ParseV6List(SplitComma(parts[3]))
                    ELSE [ok |-> TRUE, val |-> << >>]
        aliases == LowerAll(SplitComma(parts[4]))
        dns == IF Len(parts) = 5 /\ parts[5] # << >>
               THEN ParseIpList(SplitComma(parts[5]))
               ELSE [ok |-> TRUE, val |-> << >>]
    IN  IF ~v4_addrs.ok THEN Err("Other")
        ELSE IF ~v6_addrs.ok THEN Err("Other")
        ELSE IF aliases = << >> THEN Err("InvalidData")
        ELSE IF ~dns.ok THEN Err("Other")
        ELSE [ok |-> TRUE,
              val |-> [id |-> LowerAll(parts[1]),
                       v4 |-> v4_addrs.val,
                       v6 |-> v6_addrs.val,
                       aliases |-> aliases,
                       dns_servers |-> IF Len(parts) = 5 /\ parts[5] # << >>
                                       THEN Some(dns.val) ELSE None]]

\* for line in content.split('\n')
RECURSIVE ParseLines(_, _, _, _)
ParseLines(lines, is_first, bind_addrs, ctrs) ==
    IF lines = << >>
    THEN [ok |-> TRUE, bind_ips |-> bind_addrs, ctr_entry |-> ctrs]
    ELSE LET line == Head(lines) IN
         IF IsEmptyLine(line) THEN ParseLines(Tail(lines), is_first, bind_addrs, ctrs)
         ELSE IF is_first
         THEN LET b == ParseBindLine(line) IN
              IF ~b.ok THEN b
              ELSE ParseLines(Tail(lines), FALSE, bind_addrs \o b.val, ctrs)
         ELSE LET e == ParseCtrLine(line) IN
              IF ~e.ok THEN e
              ELSE ParseLines(Tail(lines), FALSE, bind_addrs, Append(ctrs, e.val))

\* the directory: a sequence of entries [name, ok, lines]; ok is FALSE for an
\* entry read_dir fails to yield
Names(d) == {d[i].name : i \in DOMAIN d}
Content(d, name) == d[CHOOSE i \in DOMAIN d : d[i].name = name].lines

\* parse_config without its last check
parse_config_NoBindCheck(d, name) ==
    IF name \notin Names(d) THEN Err("NotFound")
    ELSE ParseLines(Content(d, name), TRUE, << >>, << >>)

\* read_to_string(path)? fails when the file is gone; after the lines, a file
\* that gave no bind address is an error
parse_config(d, name) ==
    IF name \notin Names(d) THEN Err("NotFound")
    ELSE LET r == ParseLines(Content(d, name), TRUE, << >>, << >>)
         IN  IF ~r.ok THEN r
             ELSE IF r.bind_ips = << >> THEN Err("InvalidData")
             ELSE r

-----------------------------------------------------------------------------
(* parse_configs: the loop body that folds one descriptor into the tables *)

EmptyTables ==
    [network_membership |-> << >>, container_ips |-> << >>, reverse |-> << >>,
     network_names |-> << >>, listen_ips_4 |-> << >>, listen_ips_6 |-> << >>,
     ctr_dns_server |-> << >>]

\* AddBindIps that puts every address into the v4 map
RECURSIVE AddBindIps_AllV4(_, _, _)
AddBindIps_AllV4(a, network_name, bind_ips) ==
    IF bind_ips = << >> THEN a
    ELSE AddBindIps_AllV4(
             [a EXCEPT !.listen_ips_4 =
                Put(@, network_name, Append(Get(@, network_name, << >>), Head(bind_ips)))],
             network_name, Tail(bind_ips))

\* for ip in bind_ips: push to listen_ips_4 or listen_ips_6 of the network
RECURSIVE AddBindIps(_, _, _)
AddBindIps(a, network_name, bind_ips) ==
    IF bind_ips = << >> THEN a
    ELSE LET ip == Head(bind_ips)
             a2 == IF ip.fam = 4
                   THEN [a EXCEPT !.listen_ips_4 =
                           Put(@, network_name, Append(Get(@, network_name, << >>), ip))]
                   ELSE [a EXCEPT !.listen_ips_6 =
                           Put(@, network_name, Append(Get(@, network_name, << >>), ip))]
         IN  AddBindIps(a2, network_name, Tail(bind_ips))

\* if !ctr_networks.contains(&network_name) { ctr_networks.push(..) }
AddMembership(membership, id, network_name) ==
    LET ctr_networks == Get(membership, id, << >>)
    IN  Put(membership, id,
            IF network_name \in Range(ctr_networks) THEN ctr_networks
            ELSE Append(ctr_networks, network_name))

\* AddReverse with the names of an address replaced, not appended to
RECURSIVE AddReverse_Overwrite(_, _, _, _)
AddReverse_Overwrite(reverse, network_name, ips, aliases) ==
    IF ips = << >> THEN reverse
    ELSE LET net == Get(reverse, network_name, << >>)
         IN  AddReverse_Overwrite(Put(reverse, network_name, Put(net, Head(ips), aliases)),
                                  network_name, Tail(ips), aliases)

\* for ip in v4 / v6: reverse[net][ip].append(aliases)
RECURSIVE AddReverse(_, _, _, _)
AddReverse(reverse, network_name, ips, aliases) ==
    IF ips = << >> THEN reverse
    ELSE LET net == Get(reverse, network_name, << >>)
             names == Get(net, Head(ips), << >>)
         IN  AddReverse(Put(reverse, network_name, Put(net, Head(ips), names \o aliases)),
                        network_name, Tail(ips), aliases)

\* AddDnsServers in which a line without dns servers leaves a recorded list alone
RECURSIVE AddDnsServers_KeepSome(_, _, _)
AddDnsServers_KeepSome(ctr_dns_server, ips, dns_servers) ==
    IF ips = << >> THEN ctr_dns_server
    ELSE AddDnsServers_KeepSome(
             IF ~dns_servers.some /\ Head(ips) \in DOMAIN ctr_dns_server
             THEN ctr_dns_server
             ELSE Put(ctr_dns_server, Head(ips), dns_servers),
             Tail(ips), dns_servers)

\* AddDnsServers that keeps the value an address already has
RECURSIVE AddDnsServers_KeepFirst(_, _, _)
AddDnsServers_KeepFirst(ctr_dns_server, ips, dns_servers) ==
    IF ips = << >> THEN ctr_dns_server
    ELSE AddDnsServers_KeepFirst(
             IF Head(ips) \in DOMAIN ctr_dns_server THEN ctr_dns_server
             ELSE Put(ctr_dns_server, Head(ips), dns_servers),
             Tail(ips), dns_servers)

\* for ip in v4 / v6: ctr_dns_server.insert(ip, entry.dns_servers)
RECURSIVE AddDnsServers(_, _, _)
AddDnsServers(ctr_dns_server, ips, dns_servers) ==
    IF ips = << >> THEN ctr_dns_server
    ELSE AddDnsServers(Put(ctr_dns_server, Head(ips), dns_servers), Tail(ips), dns_servers)

\* AddAliases that stops after the first name of the line
AddAliases_FirstOnly(network_aliases, aliases, new_ctr_ips) ==
    IF aliases = << >> THEN network_aliases
    ELSE Put(network_aliases, Head(aliases),
             Get(network_aliases, Head(aliases), << >>) \o new_ctr_ips)

\* for alias in entry.aliases: network_aliases[alias].append(new_ctr_ips)
RECURSIVE AddAliases(_, _, _)
AddAliases(network_aliases, aliases, new_ctr_ips) ==
    IF aliases = << >> THEN network_aliases
    ELSE AddAliases(Put(network_aliases, Head(aliases),
                        Get(network_aliases, Head(aliases), << >>) \o new_ctr_ips),
                    Tail(aliases), new_ctr_ips)

\* AddEntry that gives the names of the line its v4 addresses only
AddEntry_NamesV4Only(a, network_name, entry) ==
    LET new_ctr_ips == entry.v4 \o entry.v6
    IN  [a EXCEPT
           !.network_membership = AddMembership(@, entry.id, network_name),
           !.reverse = AddReverse(@, network_name, new_ctr_ips, entry.aliases),
           !.ctr_dns_server = AddDnsServers(@, new_ctr_ips, entry.dns_servers),
           !.container_ips = Put(@, entry.id, Get(@, entry.id, << >>) \o new_ctr_ips),
           !.network_names =
               Put(@, network_name,
                   AddAliases(Get(@, network_name, << >>), entry.aliases, entry.v4))]

\* AddEntry that collects the v6 addresses of the line before its v4 addresses
AddEntry_V6First(a, network_name, entry) ==
    LET new_ctr_ips == entry.v6 \o entry.v4
    IN  [a EXCEPT
           !.network_membership = AddMembership(@, entry.id, network_name),
           !.reverse = AddReverse(@, network_name, new_ctr_ips, entry.aliases),
           !.ctr_dns_server = AddDnsServers(@, new_ctr_ips, entry.dns_servers),
           !.container_ips = Put(@, entry.id, Get(@, entry.id, << >>) \o new_ctr_ips),
           !.network_names =
               Put(@, network_name,
                   AddAliases(Get(@, network_name, << >>), entry.aliases, new_ctr_ips))]

\* one CtrEntry of the network
AddEntry(a, network_name, entry) ==
    LET new_ctr_ips == entry.v4 \o entry.v6
    IN  [a EXCEPT
           !.network_membership = AddMembership(@, entry.id, network_name),
           !.reverse = AddReverse(@, network_name, new_ctr_ips, entry.aliases),
           !.ctr_dns_server = AddDnsServers(@, new_ctr_ips, entry.dns_servers),
           !.container_ips = Put(@, entry.id, Get(@, entry.id, << >>) \o new_ctr_ips),
           !.network_names =
               Put(@, network_name,
                   AddAliases(Get(@, network_name, << >>), entry.aliases, new_ctr_ips))]

RECURSIVE AddEntries(_, _, _)
AddEntries(a, network_name, ctr_entry) ==
    IF ctr_entry = << >> THEN a
    ELSE AddEntries(AddEntry(a, network_name, Head(ctr_entry)), network_name,
                    Tail(ctr_entry))

\* the Ok(cfg) arm for a parsed file
FoldConfig(a, network_name, parsed) ==
    AddEntries(AddBindIps(a, network_name, parsed.bind_ips), network_name,
               parsed.ctr_entry)

-----------------------------------------------------------------------------
(* parse_configs: the types returned *)

RECURSIVE AppendNetworks(_, _, _)
AppendNetworks(ctrs, ips, s) ==
    IF ips = << >> THEN ctrs
    ELSE AppendNetworks(Put(ctrs, Head(ips), Get(ctrs, Head(ips), << >>) \o s),
                        Tail(ips), s)

\* for (ctr_id, ips) in container_ips, in the order the hash map yields them
RECURSIVE BuildCtrs(_, _, _, _)
BuildCtrs(ctrs, order, container_ips, network_membership) ==
    IF order = << >> THEN [ok |-> TRUE, val |-> ctrs]
    ELSE LET ctr_id == Head(order) IN
         IF ctr_id \notin DOMAIN network_membership THEN Err("Other")
         ELSE BuildCtrs(AppendNetworks(ctrs, container_ips[ctr_id],
                                       network_membership[ctr_id]),
                        Tail(order), container_ips, network_membership)

\* DNSBackend::new(ctrs, network_names, reverse, ctr_dns_server)
DNSBackend(ctrs, network_names, reverse, ctr_dns_server) ==
    [ip_mappings |-> ctrs, name_mappings |-> network_names,
     reverse_mappings |-> reverse, ctr_dns_server |-> ctr_dns_server]

Finish(a, order) ==
    LET c == BuildCtrs(<< >>, order, a.container_ips, a.network_membership)
    IN  IF ~c.ok THEN c
        ELSE [ok |-> TRUE,
              backend |-> DNSBackend(c.val, a.network_names, a.reverse, a.ctr_dns_server),
              listen_ip_v4 |-> a.listen_ips_4,
              listen_ip_v6 |-> a.listen_ips_6]

\* the orders in which a hash map may yield its keys
Orders(S) ==
    {p \in [1..Cardinality(S) -> S] : \A i, j \in 1..Cardinality(S) : p[i] = p[j] => i = j}

-----------------------------------------------------------------------------
(* DNSBackend lookups *)

NXDomain == [kind |-> "NXDomain"]
Success(ips) == [kind |-> "Success", ips |-> ips]
Forward(ips) == [kind |-> "Forward", ips |-> ips]

RECURSIVE CollectNames(_, _, _)
CollectNames(backend, nets, name) ==
    IF nets = << >> THEN << >>
    ELSE LET m == Get(backend.name_mappings, Head(nets), << >>)
         IN  Get(m, name, << >>) \o CollectNames(backend, Tail(nets), name)

lookup(backend, source_ip, query_name) ==
    LET name == to_lowercase(query_name) IN
    IF source_ip \notin DOMAIN backend.ip_mappings THEN NXDomain
    ELSE LET result == CollectNames(backend, backend.ip_mappings[source_ip], name)
             up == Get(backend.ctr_dns_server, source_ip, None)
         IN  IF result # << >> THEN Success(result)
             ELSE IF up.some /\ up.val # << >> THEN Forward(up.val)
             ELSE NXDomain

RECURSIVE FirstNames(_, _, _)
FirstNames(backend, nets, target_ip) ==
    IF nets = << >> THEN None
    ELSE LET m == Get(backend.reverse_mappings, Head(nets), << >>)
             names == Get(m, target_ip, << >>)
         IN  IF names # << >> THEN Some(names)
             ELSE FirstNames(backend, Tail(nets), target_ip)

reverse_lookup(backend, source_ip, target_ip) ==
    IF source_ip \notin DOMAIN backend.ip_mappings THEN None
    ELSE FirstNames(backend, backend.ip_mappings[source_ip], target_ip)

-----------------------------------------------------------------------------
(* The descriptor directory and what the container runtime writes to it *)

\* the bind-IP lines a descriptor is created with
BindV4 == << <<"10.0.0.1">> >>
BindV4V6 == << <<"10.0.1.1", "fd00::1">> >>

Headers == { << >>, <<BindV4>>, <<BindV4V6>> }

\* bind-IP lines with v6 addresses only, and with the families interleaved
BindV6 == << <<"fd00::2">> >>
BindMixed == << <<"fd00::2", "10.0.0.3", "fd00::1", "10.0.0.1">> >>

AddrHeaders == { <<BindV4>>, <<BindV6>>, <<BindMixed>> }

\* the lines appended after it
BlankLine == << << >> >>

GoodLines ==
    { << <<"c1">>, <<"10.0.0.2">>, << >>, <<"a">> >>,
      << <<"c1">>, <<"10.0.0.3">>, << >>, <<"b">> >>,
      << <<"c2">>, <<"10.0.0.2">>, <<"fd00::2">>, <<"B", "c">> >>,
      << <<"c2">>, << >>, << >>, <<"a">> >>,
      << <<"C1">>, <<"10.0.0.3">>, << >>, <<"a">>, <<"8.8.8.8">> >>,
      BlankLine }

OddLines ==
    { << <<"c1">>, <<"10.0.0.2">>, << >>, << >> >>,
      << <<"c1">>, <<"10.0.0.2">>, << >> >>,
      << <<"c1">>, <<"bogus">>, << >>, <<"a">> >>,
      << <<"c1">>, << >>, <<"10.0.0.2">>, <<"a">> >>,
      << <<"c1">>, <<"10.0.0.3">>, << >>, <<"a">>, <<"bogus">> >>,
      << <<"c1">>, <<"10.0.0.3">>, << >>, <<"a">>, <<"bogus">>, << >> >> }

\* lines of a container whose ID is longer than 12 characters: with a name list
\* that does not repeat the ID, and with one that holds its first 12 characters
IdLines ==
    { << <<"0123456789abcdef">>, <<"10.0.0.2">>, <<"fd00::2">>, <<"web">> >>,
      << <<"0123456789abcdef">>, <<"10.0.0.3">>, << >>, <<"web", "0123456789ab">> >> }

\* lines with several addresses per family written out of numeric order, a
\* shared and a repeated name, a list of dns servers, an empty dns-server field,
\* a dns-server field followed by a trailing space
AddrLines ==
    { << <<"c1">>, <<"10.0.0.3", "10.0.0.2">>, <<"fd00::2", "fd00::1">>, <<"a">> >>,
      << <<"c2">>, <<"10.0.0.2">>, << >>, <<"a", "b">>, <<"8.8.8.8", "fd00::1">> >>,
      << <<"c3">>, << >>, <<"fd00::2">>, <<"b", "b">> >>,
      << <<"c3">>, <<"10.0.0.3">>, << >>, <<"c">>, << >> >>,
      << <<"c3">>, <<"10.0.0.3">>, << >>, <<"c">>, <<"8.8.8.8">>, << >> >> }

\* lines that list the same addresses with and without a dns-server field, with
\* an empty one, with one that does not parse, and with fields after it
DnsLines ==
    { << <<"c1">>, <<"10.0.0.2">>, << >>, <<"a">> >>,
      << <<"c1">>, <<"10.0.0.2">>, << >>, <<"a">>, <<"8.8.8.8">> >>,
      << <<"c1">>, <<"10.0.0.3">>, << >>, <<"a">>, << >> >>,
      << <<"c2">>, <<"10.0.0.2", "10.0.0.3">>, << >>, <<"b">>, <<"fd00::1", "8.8.8.8">> >>,
      << <<"c2">>, <<"10.0.0.3">>, << >>, <<"b">>, <<"8.8.8.8">>, << >> >>,
      << <<"c2">>, <<"10.0.0.3">>, << >>, <<"b">>, <<"bogus">>, <<"8.8.8.8">> >>,
      << <<"c3">>, <<"10.0.0.3">>, << >>, <<"c">>, <<"8.8.8.8">>, << >>, << >> >>,
      << <<"c3">>, <<"10.0.0.3">>, << >>, <<"c">>, <<"bogus">> >> }

\* what a pid file holds
PidContent == << << <<"1234">> >> >>

\* other things a file of that name may hold: nothing, a well-formed descriptor
PidContents ==
    { PidContent, << >>,
      <<BindV4, << <<"c1">>, <<"10.0.0.2">>, << >>, <<"a">> >> >> }

File(name, lines) == [name |-> name, ok |-> TRUE, lines |-> lines]
Unreadable(name) == [name |-> name, ok |-> FALSE, lines |-> << >>]

\* lines appended so far (a descriptor's bind-IP line comes with its creation)
RECURSIVE Appended(_)
Appended(d) ==
    IF d = << >> THEN 0
    ELSE LET f == Head(d)
             own == IF f.name = AARDVARK_PID_FILE \/ f.lines = << >> THEN 0
                    ELSE IF Head(f.lines) \in {BindV4, BindV4V6, BindV6, BindMixed}
                         THEN Len(f.lines) - 1
                    ELSE Len(f.lines)
         IN  own + Appended(Tail(d))

RECURSIVE Remove(_, _)
Remove(d, name) ==
    IF d = << >> THEN << >>
    ELSE IF Head(d).name = name THEN Tail(d)
    ELSE <<Head(d)>> \o Remove(Tail(d), name)

-----------------------------------------------------------------------------
(* State *)

Init ==
    /\ dir = << >>
    /\ phase = "idle"
    /\ snap = << >>
    /\ queue = << >>
    /\ acc = EmptyTables
    /\ res = None
    /\ prev = None
    /\ ppc = "idle"
    /\ cpc = "idle"
    /\ pwait = << >>
    /\ cbind = << >>
    /\ ready = {}
    /\ wasReady = {}

Writing == phase = "idle" /\ ~prev.some /\ ppc = "idle"

CreateFile(n, h) ==
    /\ Writing
    /\ n \notin Names(dir)
    /\ dir' = Append(dir, File(n, h))
    /\ UNCHANGED <<loaderVars, runVars>>

\* an entry that read_dir will fail to yield
CreateUnreadable(n) ==
    /\ Writing
    /\ n \notin Names(dir)
    /\ dir' = Append(dir, Unreadable(n))
    /\ UNCHANGED <<loaderVars, runVars>>

CreatePidFile ==
    /\ Writing
    /\ AARDVARK_PID_FILE \notin Names(dir)
    /\ dir' = Append(dir, File(AARDVARK_PID_FILE, PidContent))
    /\ UNCHANGED <<loaderVars, runVars>>

\* the pid file with any content
CreatePidFileHolding(lines) ==
    /\ Writing
    /\ AARDVARK_PID_FILE \notin Names(dir)
    /\ dir' = Append(dir, File(AARDVARK_PID_FILE, lines))
    /\ UNCHANGED <<loaderVars, runVars>>

AppendLine(n, l) ==
    /\ Writing
    /\ Appended(dir) < MaxLines
    /\ \E i \in DOMAIN dir :
         /\ dir[i].name = n
         /\ dir[i].ok
         /\ dir' = [dir EXCEPT ![i].lines = Append(@, l)]
    /\ UNCHANGED <<loaderVars, runVars>>

-----------------------------------------------------------------------------
(* parse_configs, one step per directory entry *)

\* read_dir(dir)?
ReadDir ==
    /\ phase = "idle"
    /\ ppc = "idle"
    /\ queue' = [i \in DOMAIN dir |-> [name |-> dir[i].name, ok |-> dir[i].ok]]
    /\ snap' = dir
    /\ phase' = "loop"
    /\ acc' = EmptyTables
    /\ res' = None
    /\ UNCHANGED <<dir, prev, runVars>>

\* LoopBody that parses the pid file like any other file
LoopBody_PidParsed(d, a, config) ==
    IF ~config.ok THEN [ok |-> TRUE, val |-> a]
    ELSE LET parsed == parse_config(d, config.name)
         IN  IF ~parsed.ok THEN parsed
             ELSE [ok |-> TRUE, val |-> FoldConfig(a, config.name, parsed)]

\* the body of for config in configs: an Err entry is warned about and skipped,
\* the pid file is passed over, any other file is parsed and folded
LoopBody(d, a, config) ==
    IF ~config.ok THEN [ok |-> TRUE, val |-> a]
    ELSE IF config.name = AARDVARK_PID_FILE THEN [ok |-> TRUE, val |-> a]
    ELSE LET parsed == parse_config(d, config.name)
         IN  IF ~parsed.ok THEN parsed
             ELSE [ok |-> TRUE, val |-> FoldConfig(a, config.name, parsed)]

ProcessEntry ==
    /\ phase = "loop"
    /\ queue # << >>
    /\ LET r == LoopBody(dir, acc, Head(queue)) IN
         /\ queue' = Tail(queue)
         /\ IF r.ok
            THEN acc' = r.val /\ UNCHANGED <<phase, res>>
            ELSE phase' = "done" /\ res' = r /\ UNCHANGED acc
    /\ UNCHANGED <<dir, snap, prev, runVars>>

\* the runtime removes a descriptor the loader has listed and not yet opened
RemoveFile(n) ==
    /\ phase = "loop"
    /\ ~prev.some
    /\ \E i \in DOMAIN queue : queue[i].name = n /\ queue[i].ok
    /\ n \in Names(dir)
    /\ dir' = Remove(dir, n)
    /\ UNCHANGED <<loaderVars, runVars>>

\* after the loop: the types returned
Return ==
    /\ phase = "loop"
    /\ queue = << >>
    /\ \E order \in Orders(DOMAIN acc.container_ips) : res' = Finish(acc, order)
    /\ phase' = "done"
    /\ UNCHANGED <<dir, snap, queue, acc, prev, runVars>>

\* parse_configs returned a Backend and is called again on the same directory
Reload ==
    /\ phase = "done"
    /\ ~prev.some
    /\ res.ok
    /\ dir = snap
    /\ prev' = Some([snap |-> snap, res |-> res])
    /\ phase' = "idle"
    /\ snap' = << >>
    /\ queue' = << >>
    /\ acc' = EmptyTables
    /\ res' = None
    /\ UNCHANGED <<dir, runVars>>

Next ==
    \/ \E n \in Networks, h \in Headers : CreateFile(n, h)
    \/ \E n \in Networks : CreateUnreadable(n)
    \/ CreatePidFile
    \/ \E n \in Networks, l \in GoodLines : AppendLine(n, l)
    \/ ReadDir
    \/ ProcessEntry
    \/ \E n \in Networks : RemoveFile(n)
    \/ Return
    \/ Reload

Spec == Init /\ [][Next]_vars

-----------------------------------------------------------------------------
(* Run::exec: fork, then the parent waits for the listeners of the child *)

\* parse_configs as one call: the loop over the entries, then the types returned
RECURSIVE RunLoop(_, _, _)
RunLoop(d, r, configs) ==
    IF ~r.ok \/ configs = << >> THEN r
    ELSE RunLoop(d, LoopBody(d, r.val, Head(configs)), Tail(configs))

Listing(d) == [i \in DOMAIN d |-> [name |-> d[i].name, ok |-> d[i].ok]]

Returned(r) ==
    IF ~r.ok THEN r
    ELSE Finish(r.val, CHOOSE order \in Orders(DOMAIN r.val.container_ips) : TRUE)

parse_configs(d) == Returned(RunLoop(d, [ok |-> TRUE, val |-> EmptyTables], Listing(d)))

\* the lists of a listen map, one after the other in the order the map yields them
RECURSIVE Flatten(_, _)
Flatten(listen, order) ==
    IF order = << >> THEN << >>
    ELSE listen[Head(order)] \o Flatten(listen, Tail(order))

\* the parent waiting for the v4 addresses only
WaitList_V4Only(listen_ip_v4, order4, listen_ip_v6, order6) ==
    Flatten(listen_ip_v4, order4)

\* for (_, ip_list) in listen_ip_v4 { .. } for (_, ip_list) in listen_ip_v6 { .. }
WaitList(listen_ip_v4, order4, listen_ip_v6, order6) ==
    Flatten(listen_ip_v4, order4) \o Flatten(listen_ip_v6, order6)

\* fork() succeeds: two processes run exec from here
ForkOk ==
    /\ ppc = "idle"
    /\ phase = "idle"
    /\ ppc' = "parse"
    /\ cpc' = "start"
    /\ UNCHANGED <<dir, loaderVars, pwait, cbind, ready, wasReady>>

\* Err(err) => fork failed
ForkFail ==
    /\ ppc = "idle"
    /\ phase = "idle"
    /\ ppc' = "err"
    /\ UNCHANGED <<dir, loaderVars, cpc, pwait, cbind, ready, wasReady>>

\* parent: match config::parse_configs(&input_dir)
ParentMatch(r) ==
    IF r.ok
    THEN /\ \E order4 \in Orders(DOMAIN r.listen_ip_v4),
               order6 \in Orders(DOMAIN r.listen_ip_v6) :
              pwait' = WaitList(r.listen_ip_v4, order4, r.listen_ip_v6, order6)
         /\ ppc' = "wait"
    ELSE /\ ppc' = "err"
         /\ UNCHANGED pwait

ParentParse ==
    /\ ppc = "parse"
    /\ \E r \in {parse_configs(dir)} : ParentMatch(r)
    /\ UNCHANGED <<dir, loaderVars, cpc, cbind, ready, wasReady>>

\* parent: serve::wait_till_aardvark_server_ready(ip, port) returns once the
\* address is ready
ParentWait ==
    /\ ppc = "wait"
    /\ pwait # << >>
    /\ Head(pwait) \in ready
    /\ pwait' = Tail(pwait)
    /\ UNCHANGED <<dir, loaderVars, ppc, cpc, cbind, ready, wasReady>>

\* parent: Ok(())
ParentOk ==
    /\ ppc = "wait"
    /\ pwait = << >>
    /\ ppc' = "ok"
    /\ UNCHANGED <<dir, loaderVars, cpc, pwait, cbind, ready, wasReady>>

\* child: serve::serve(&input_dir, port, ..) loads the descriptors
ChildMatch(r) ==
    IF r.ok
    THEN /\ \E order4 \in Orders(DOMAIN r.listen_ip_v4),
               order6 \in Orders(DOMAIN r.listen_ip_v6) :
              cbind' = Flatten(r.listen_ip_v4, order4) \o Flatten(r.listen_ip_v6, order6)
         /\ cpc' = "bind"
    ELSE /\ cpc' = "err"
         /\ UNCHANGED cbind

ChildServe ==
    /\ cpc = "start"
    /\ \E r \in {parse_configs(dir)} : ChildMatch(r)
    /\ UNCHANGED <<dir, loaderVars, ppc, pwait, ready, wasReady>>

\* child: a listener is bound and signals that it is ready
ChildBind ==
    /\ cpc = "bind"
    /\ cbind # << >>
    /\ ready' = ready \cup {Head(cbind)}
    /\ wasReady' = wasReady \cup {Head(cbind)}
    /\ cbind' = Tail(cbind)
    /\ UNCHANGED <<dir, loaderVars, ppc, cpc, pwait>>

\* child: a bind fails, serve returns the error and the process exits
ChildBindFail ==
    /\ cpc = "bind"
    /\ cbind # << >>
    /\ cpc' = "err"
    /\ ready' = {}
    /\ UNCHANGED <<dir, loaderVars, ppc, pwait, cbind, wasReady>>

\* child: every listener is up
ChildServing ==
    /\ cpc = "bind"
    /\ cbind = << >>
    /\ cpc' = "serving"
    /\ UNCHANGED <<dir, loaderVars, ppc, pwait, cbind, ready, wasReady>>

NextRun ==
    \/ \E n \in Networks, h \in Headers : CreateFile(n, h)
    \/ \E n \in Networks : CreateUnreadable(n)
    \/ CreatePidFile
    \/ ForkOk
    \/ ForkFail
    \/ ParentParse
    \/ ParentWait
    \/ ParentOk
    \/ ChildServe
    \/ ChildBind
    \/ ChildBindFail
    \/ ChildServing

SpecRun == Init /\ [][NextRun]_vars

\* the steps of the parent process
ParentStep == ParentParse \/ ParentWait \/ ParentOk

\* one descriptor is given every kind of line, malformed ones included, and is
\* loaded once
NextParse ==
    \/ \E n \in Networks, h \in Headers : CreateFile(n, h)
    \/ CreatePidFile
    \/ \E l \in GoodLines \cup OddLines : AppendLine("n1", l)
    \/ ReadDir
    \/ ProcessEntry
    \/ Return

SpecParse == Init /\ [][NextParse]_vars

\* the descriptors hold the lines of a container with a long ID, and are loaded once
NextIds ==
    \/ \E n \in Networks, h \in Headers : CreateFile(n, h)
    \/ \E n \in Networks, l \in IdLines : AppendLine(n, l)
    \/ ReadDir
    \/ ProcessEntry
    \/ Return

SpecIds == Init /\ [][NextIds]_vars

\* the descriptors hold lines with several addresses and shared names, and are
\* loaded once
NextAddrs ==
    \/ \E n \in Networks, h \in AddrHeaders : CreateFile(n, h)
    \/ \E lines \in PidContents : CreatePidFileHolding(lines)
    \/ \E n \in Networks, l \in AddrLines : AppendLine(n, l)
    \/ ReadDir
    \/ ProcessEntry
    \/ Return

SpecAddrs == Init /\ [][NextAddrs]_vars

\* the descriptors hold lines that list the same addresses with different
\* dns-server fields, and are loaded once
NextDns ==
    \/ \E n \in Networks : CreateFile(n, <<BindV4>>)
    \/ \E n \in Networks, l \in DnsLines : AppendLine(n, l)
    \/ ReadDir
    \/ ProcessEntry
    \/ Return

SpecDns == Init /\ [][NextDns]_vars

-----------------------------------------------------------------------------
(* What the descriptors say, read off the directory parse_configs listed *)

Loaded == phase = "done" /\ res.ok

\* the descriptors parse_configs processes: readable entries other than the pid file
Descriptors(d) == {d[i].name : i \in {j \in DOMAIN d : d[j].ok /\ d[j].name # AARDVARK_PID_FILE}}

\* the container lines of every descriptor, by network name
RECURSIVE CtrEntriesOf(_, _)
CtrEntriesOf(d, names) ==
    IF names = {} THEN << >>
    ELSE LET n == CHOOSE m \in names : TRUE
         IN  (n :> parse_config(d, n).ctr_entry) @@ CtrEntriesOf(d, names \ {n})

CtrEntries(d) == CtrEntriesOf(d, Descriptors(d))

Addrs(e) == Range(e.v4) \cup Range(e.v6)

\* ip is an address of some container line of n
ListedOn(E, ip, n) == \E i \in DOMAIN E[n] : ip \in Addrs(E[n][i])

\* some container line of n carries the name x
NamedOn(E, x, n) == \E i \in DOMAIN E[n] : x \in Range(E[n][i].aliases)

\* some container line of n carries the name x and an address
NamedWithAddrOn(E, x, n) ==
    \E i \in DOMAIN E[n] : x \in Range(E[n][i].aliases) /\ Addrs(E[n][i]) # {}

SourceIps == {V4("10.0.0.2"), V4("10.0.0.3"), V6("fd00::2"), V4("10.0.0.1")}
QueryNames == {"a", "b", "c", "B", "zz"}

NoDuplicates(seq) == \A i, j \in DOMAIN seq : seq[i] = seq[j] => i = j

IpNetworks(backend, ip) == Get(backend.ip_mappings, ip, << >>)

-----------------------------------------------------------------------------
(* C1..C6, C8: the tables and the lookups after parse_configs *)

\* C1: after parse_configs succeeds, the network list stored for every source
\* IP in ip_mappings holds each network name at most once.
C1_NetworksDeduplicated ==
    Loaded => \A ip \in DOMAIN res.backend.ip_mappings :
                  NoDuplicates(res.backend.ip_mappings[ip])

\* C2: isolation. A source IP the descriptors list on network n1 only never gets
\* Success for a name that exists on another network n2 only; with no upstream
\* recorded for it the answer is NXDomain.
C2_Isolation ==
    Loaded =>
      LET E == CtrEntries(snap) IN
      \A s \in SourceIps, x \in QueryNames, n1 \in DOMAIN E, n2 \in DOMAIN E :
        ( /\ n1 # n2
          /\ \A n \in DOMAIN E : ListedOn(E, s, n) <=> n = n1
          /\ \A n \in DOMAIN E : NamedOn(E, to_lowercase(x), n) <=> n = n2 )
        => LET r == lookup(res.backend, s, x)
               up == Get(res.backend.ctr_dns_server, s, None)
           IN  /\ r.kind # "Success"
               /\ (~up.some => r.kind = "NXDomain")

\* C3 as stated: lookup(s, x) is Success if and only if some network of s
\* holds an entry named x, whatever addresses that entry has.
C3_SuccessIffNamed ==
    Loaded =>
      LET E == CtrEntries(snap) IN
      \A s \in SourceIps, x \in QueryNames :
        lookup(res.backend, s, x).kind = "Success"
          <=> \E n \in Range(IpNetworks(res.backend, s)) : NamedOn(E, to_lowercase(x), n)

\* C3 amended: lookup(s, x) is Success if and only if some network in the
\* network list of s holds an entry named x that has at least one address.
C3_SuccessIffNamedWithAddress ==
    Loaded =>
      LET E == CtrEntries(snap) IN
      \A s \in SourceIps, x \in QueryNames :
        lookup(res.backend, s, x).kind = "Success"
          <=> \E n \in Range(IpNetworks(res.backend, s)) :
                  NamedWithAddrOn(E, to_lowercase(x), n)

C3_Witness ==
    /\ Loaded
    /\ \E s \in SourceIps, n \in Descriptors(snap) :
         /\ n \in Range(IpNetworks(res.backend, s))
         /\ NamedOn(CtrEntries(snap), "a", n)
         /\ ~NamedWithAddrOn(CtrEntries(snap), "a", n)
         /\ lookup(res.backend, s, "a").kind = "NXDomain"
    /\ \E s \in SourceIps : lookup(res.backend, s, "B").kind = "Success"

\* C4 as stated: round trip. For a container line of network n with address a
\* and name x, and a source s listed on n: reverse_lookup(s, a) holds x and
\* lookup(s, x) holds a.
C4_RoundTrip ==
    Loaded =>
      LET E == CtrEntries(snap) IN
      \A n \in DOMAIN E, s \in SourceIps :
        ListedOn(E, s, n) =>
          \A i \in DOMAIN E[n] :
            \A a \in Addrs(E[n][i]), x \in Range(E[n][i].aliases) :
              LET r == reverse_lookup(res.backend, s, a)
                  l == lookup(res.backend, s, x)
              IN  /\ r.some /\ x \in Range(r.val)
                  /\ l.kind = "Success" /\ a \in Range(l.ips)

\* the first network of the list of s on which the descriptors list a
FirstListing(backend, E, s, a) ==
    LET nets == IpNetworks(backend, s)
        at == {i \in DOMAIN nets : ListedOn(E, a, nets[i])}
    IN  nets[CHOOSE i \in at : \A j \in at : i <= j]

\* C4 amended: lookup(s, x) holds a in every case; reverse_lookup(s, a) holds x
\* when n is the first network of the list of s on which a is present (it
\* answers with the names a has on that network only).
C4_RoundTripFirstNetwork ==
    Loaded =>
      LET E == CtrEntries(snap) IN
      \A n \in DOMAIN E, s \in SourceIps :
        ListedOn(E, s, n) =>
          \A i \in DOMAIN E[n] :
            \A a \in Addrs(E[n][i]), x \in Range(E[n][i].aliases) :
              LET r == reverse_lookup(res.backend, s, a)
                  l == lookup(res.backend, s, x)
              IN  /\ l.kind = "Success" /\ a \in Range(l.ips)
                  /\ r.some
                  /\ (n = FirstListing(res.backend, E, s, a) => x \in Range(r.val))

C4_Witness ==
    /\ Loaded
    /\ \E s \in SourceIps, a \in SourceIps, n \in Descriptors(snap), m \in Descriptors(snap) :
         LET E == CtrEntries(snap) IN
         /\ n # m
         /\ ListedOn(E, s, n) /\ ListedOn(E, a, n) /\ ListedOn(E, a, m)
         /\ m = FirstListing(res.backend, E, s, a)
         /\ \E x \in QueryNames :
              /\ NamedOn(E, x, n)
              /\ x \notin Range(reverse_lookup(res.backend, s, a).val)
              /\ a \in Range(lookup(res.backend, s, x).ips)

\* C5: after parse_configs succeeds, for every container line of network n,
\* every name x of the line and every address a of the line (v4 and v6):
\* reverse_mappings[n][a] holds x and name_mappings[n][x] holds a.
C5_LineInBothIndices ==
    Loaded =>
      LET E == CtrEntries(snap) IN
      \A n \in DOMAIN E :
        \A i \in DOMAIN E[n] :
          \A a \in Addrs(E[n][i]), x \in Range(E[n][i].aliases) :
            /\ n \in DOMAIN res.backend.reverse_mappings
            /\ a \in DOMAIN res.backend.reverse_mappings[n]
            /\ x \in Range(res.backend.reverse_mappings[n][a])
            /\ n \in DOMAIN res.backend.name_mappings
            /\ x \in DOMAIN res.backend.name_mappings[n]
            /\ a \in Range(res.backend.name_mappings[n][x])

C5_Witness ==
    /\ Loaded
    /\ \E n \in Descriptors(snap) : \E i \in DOMAIN CtrEntries(snap)[n] :
         LET e == CtrEntries(snap)[n][i] IN
         /\ e.v4 # << >> /\ e.v6 # << >> /\ Len(e.aliases) > 1
         /\ "c" \in Range(res.backend.reverse_mappings[n][V6("fd00::2")])
         /\ V6("fd00::2") \in Range(res.backend.name_mappings[n]["b"])

\* C6: two calls of parse_configs on the same directory contents, listed in the
\* same order, return the same value, the order of every list included.
C6_Deterministic ==
    (phase = "done" /\ prev.some /\ prev.val.snap = snap) => prev.val.res = res

\* C8: a descriptor removed after the directory was listed and before the
\* loader opens it never makes parse_configs return an error.
C8_RemovalOnlyWarns ==
    phase = "done" => (res.ok \/ res.err # "NotFound")

-----------------------------------------------------------------------------
(* C7, C9: malformed descriptors *)

NonEmptyLines(lines) == SelectSeq(lines, LAMBDA l : ~IsEmptyLine(l))

\* the container lines of a file as written: every non-empty line but the first
RawCtrLines(lines) ==
    IF NonEmptyLines(lines) = << >> THEN << >> ELSE Tail(NonEmptyLines(lines))

HasItemOutside(field, lits) == \E i \in DOMAIN field : field[i] \notin lits

\* fewer than four fields, an IP literal that does not parse in the v4, v6 or
\* dns-server field, or an empty name list
Malformed(parts) ==
    IF Len(parts) < 4 THEN TRUE
    ELSE \/ HasItemOutside(parts[2], V4Literals)
         \/ HasItemOutside(parts[3], V6Literals)
         \/ parts[4] = << >>
         \/ (Len(parts) >= 5 /\ HasItemOutside(parts[5], V4Literals \cup V6Literals))

\* C7: parse_configs returns an error whenever a descriptor holds a container
\* line with fewer than four fields, an unparsable IP literal in its v4, v6 or
\* dns-server field, or an empty name list.
C7_MalformedLineIsError ==
    phase = "done" =>
      ( (\E n \in Descriptors(snap) :
           \E i \in DOMAIN RawCtrLines(Content(snap, n)) :
             Malformed(RawCtrLines(Content(snap, n))[i]))
        => ~res.ok )

\* no non-empty line, or a first non-empty line that is a container line
ZeroBindIps(lines) ==
    \/ NonEmptyLines(lines) = << >>
    \/ Len(Head(NonEmptyLines(lines))) > 1

\* C9: parse_configs returns an error whenever a descriptor other than the pid
\* file declares no bind IP, and a listen map it returns holds an address for
\* every network it processed.
C9_ZeroBindIsError ==
    phase = "done" =>
      /\ (\E n \in Descriptors(snap) : ZeroBindIps(Content(snap, n))) => ~res.ok
      /\ res.ok => \A n \in Descriptors(snap) :
                      \/ Get(res.listen_ip_v4, n, << >>) # << >>
                      \/ Get(res.listen_ip_v6, n, << >>) # << >>

C9_Witness ==
    /\ phase = "done"
    /\ ~res.ok
    /\ res.err = "InvalidData"
    /\ AARDVARK_PID_FILE \in Names(snap)
    /\ \E n \in Descriptors(snap) :
         /\ Content(snap, n) # << >>
         /\ NonEmptyLines(Content(snap, n)) = << >>

-----------------------------------------------------------------------------
(* C10: the readiness handshake of Run::exec *)

\* every bind address of every descriptor of the directory
DeclaredAddrs(d) == UNION {Range(parse_config(d, n).bind_ips) : n \in Descriptors(d)}

\* C10: the parent returns Ok only after every declared gateway address, v4
\* and v6, of every network has been ready.
C10_OkOnlyAfterAllReady ==
    ppc = "ok" => DeclaredAddrs(dir) \subseteq wasReady

C10_Witness ==
    /\ ppc = "ok"
    /\ Cardinality(Descriptors(dir)) = 2
    /\ {V4("10.0.0.1"), V4("10.0.1.1"), V6("fd00::1")} \subseteq DeclaredAddrs(dir)
    /\ cpc = "bind"

\* C11: startup error propagation. Once the child has failed to start serving
\* (configuration error or bind failure), the parent has not returned Ok and does
\* not return Ok, and while it is still waiting it has a step to take: it is
\* never left waiting for an address that no listener will serve.
C11_ChildFailurePropagates ==
    cpc = "err" => /\ ppc # "ok"
                   /\ (ppc = "wait" => pwait # << >> /\ ENABLED ParentStep)

-----------------------------------------------------------------------------
(* C12..C20: names, addresses and listen maps *)

\* C12: lookup is case-insensitive. Two query names that differ only in letter
\* case get the same result from every source IP, and every key of
\* name_mappings[n] is lowercase whatever the case written in the descriptor.
C12_CaseInsensitive ==
    Loaded =>
      /\ \A s \in SourceIps, x \in QueryNames, y \in QueryNames :
           to_lowercase(x) = to_lowercase(y)
             => lookup(res.backend, s, x) = lookup(res.backend, s, y)
      /\ \A n \in DOMAIN res.backend.name_mappings :
           \A k \in DOMAIN res.backend.name_mappings[n] : to_lowercase(k) = k

C12_Witness ==
    /\ Loaded
    /\ \E n \in Descriptors(snap) : \E i \in DOMAIN Content(snap, n) :
         Len(Content(snap, n)[i]) >= 4 /\ "B" \in Range(Content(snap, n)[i][4])
    /\ \E s \in SourceIps :
         /\ lookup(res.backend, s, "B").kind = "Success"
         /\ lookup(res.backend, s, "b") = lookup(res.backend, s, "B")

\* the first 12 characters of a container ID
ShortId(id) == IF id = "0123456789abcdef" THEN "0123456789ab" ELSE id

\* C13: forward lookup accepts the short container ID. For every container line
\* of network n with an address and every source IP s listed on n, lookup(s,
\* first 12 characters of the line's ID) is Success and holds the addresses of
\* the line, whether or not the name list of the line repeats the ID.
C13_LookupByShortId ==
    Loaded =>
      LET E == CtrEntries(snap) IN
      \A n \in DOMAIN E, s \in SourceIps :
        ListedOn(E, s, n) =>
          \A i \in DOMAIN E[n] :
            Addrs(E[n][i]) # {} =>
              LET l == lookup(res.backend, s, ShortId(E[n][i].id[1]))
              IN  l.kind = "Success" /\ Addrs(E[n][i]) \subseteq Range(l.ips)

\* C14: for every container line of network n and every address a of the line,
\* reverse_mappings[n][a] holds the container ID cut to its first 12 characters
\* and every name of the line, for IDs of any length.
C14_ReverseHoldsShortId ==
    Loaded =>
      LET E == CtrEntries(snap) IN
      \A n \in DOMAIN E :
        \A i \in DOMAIN E[n] :
          \A a \in Addrs(E[n][i]) :
            LET names == Get(Get(res.backend.reverse_mappings, n, << >>), a, << >>)
            IN  /\ ShortId(E[n][i].id[1]) \in Range(names)
                /\ Range(E[n][i].aliases) \subseteq Range(names)

\* sub occurs in seq as one block, in order
IsInfix(sub, seq) ==
    \E k \in 0..(Len(seq) - Len(sub)) : \A i \in 1..Len(sub) : seq[k + i] = sub[i]

NameIps(backend, n, x) == Get(Get(backend.name_mappings, n, << >>), x, << >>)

\* C15: for every container line of network n with v4 and v6 addresses and every
\* name x of the line, name_mappings[n][x] holds all addresses of the line as
\* one block, the v4 addresses before the v6 addresses and each family in the
\* order written; lookup(s, x) from a source whose networks are n alone is
\* Success and holds the block in that same order.
C15_V4ThenV6InWrittenOrder ==
    Loaded =>
      LET E == CtrEntries(snap) IN
      \A n \in DOMAIN E :
        \A i \in DOMAIN E[n] :
          (E[n][i].v4 # << >> /\ E[n][i].v6 # << >>) =>
            \A x \in Range(E[n][i].aliases) :
              /\ IsInfix(E[n][i].v4 \o E[n][i].v6, NameIps(res.backend, n, x))
              /\ \A s \in SourceIps :
                   Range(IpNetworks(res.backend, s)) = {n} =>
                     LET l == lookup(res.backend, s, x)
                     IN  l.kind = "Success" /\ IsInfix(E[n][i].v4 \o E[n][i].v6, l.ips)

C15_Witness ==
    /\ Loaded
    /\ \E n \in Descriptors(snap), s \in SourceIps :
         /\ Range(IpNetworks(res.backend, s)) = {n}
         /\ Len(NameIps(res.backend, n, "a")) > 4
         /\ IsInfix(<<V4("10.0.0.3"), V4("10.0.0.2"), V6("fd00::2"), V6("fd00::1")>>,
                    lookup(res.backend, s, "a").ips)

\* the container lines of the descriptors as written, in the order parse_configs
\* goes through them
RECURSIVE ListedLines(_)
ListedLines(d) ==
    IF d = << >> THEN << >>
    ELSE IF Head(d).ok /\ Head(d).name # AARDVARK_PID_FILE
         THEN RawCtrLines(Head(d).lines) \o ListedLines(Tail(d))
         ELSE ListedLines(Tail(d))

RawAddrs(parts) == {V4(parts[2][i]) : i \in DOMAIN parts[2]} \cup {V6(parts[3][i]) : i \in DOMAIN parts[3]}

\* the dns servers a line names in its fifth field
FifthField(parts) ==
    IF Len(parts) >= 5 /\ parts[5] # << >> THEN Some(ParseIpList(parts[5]).val) ELSE None

\* the same for a line of exactly five fields
FifthOfFive(parts) ==
    IF Len(parts) = 5 /\ parts[5] # << >> THEN Some(ParseIpList(parts[5]).val) ELSE None

\* C16 as stated: every address of every container line is a key of
\* ctr_dns_server, and its value is the list of the fifth field of the line
\* when that field is present and non-empty, None otherwise.
C16_UpstreamPerLine ==
    Loaded =>
      LET L == ListedLines(snap) IN
      \A k \in DOMAIN L : \A a \in RawAddrs(L[k]) :
        /\ a \in DOMAIN res.backend.ctr_dns_server
        /\ res.backend.ctr_dns_server[a] = FifthField(L[k])

\* C16 amended: every address of every container line is a key of
\* ctr_dns_server; its value comes from the last line processed that lists the
\* address and is the list of that line's fifth field when the line has exactly
\* five fields and the fifth is non-empty, None otherwise.
C16_UpstreamOfLastLine ==
    Loaded =>
      LET L == ListedLines(snap) IN
      \A k \in DOMAIN L : \A a \in RawAddrs(L[k]) :
        /\ a \in DOMAIN res.backend.ctr_dns_server
        /\ (\A j \in DOMAIN L : a \in RawAddrs(L[j]) => j <= k)
             => res.backend.ctr_dns_server[a] = FifthOfFive(L[k])

C16_Witness ==
    /\ Loaded
    /\ Get(res.backend.ctr_dns_server, V4("10.0.0.2"), << >>)
         = Some(<<V4("8.8.8.8"), V6("fd00::1")>>)
    /\ Get(res.backend.ctr_dns_server, V4("10.0.0.3"), << >>) = None
    /\ \E k \in DOMAIN ListedLines(snap) :
         V4("10.0.0.2") \in RawAddrs(ListedLines(snap)[k]) /\ Len(ListedLines(snap)[k]) = 4

\* C17: a forward lookup never returns the same address twice: the list of
\* lookup(s, x) = Success(list) holds each IP at most once, whatever the number
\* of networks, duplicate aliases or repeated container lines.
C17_LookupWithoutRepeats ==
    Loaded =>
      \A s \in SourceIps, x \in QueryNames :
        LET l == lookup(res.backend, s, x)
        IN  l.kind = "Success" => NoDuplicates(l.ips)

\* the items of the bind-IP line of a descriptor, as written
BindItems(lines) == Head(NonEmptyLines(lines))[1]

\* the literals of one family among them, in written order, as addresses
BindV4s(lines) ==
    LET lits == SelectSeq(BindItems(lines), LAMBDA x : x \in V4Literals)
    IN  [i \in DOMAIN lits |-> V4(lits[i])]

BindV6s(lines) ==
    LET lits == SelectSeq(BindItems(lines), LAMBDA x : x \in V6Literals)
    IN  [i \in DOMAIN lits |-> V6(lits[i])]

\* C18: for every descriptor n, the IPv4 listen map holds under n exactly the
\* IPv4 literals of the bind-IP line of n, in written order, and the IPv6 listen
\* map exactly its IPv6 literals, in written order; a family with no bind
\* address has no entry, and the maps hold no other key.
C18_ListenMapsFollowBindLine ==
    Loaded =>
      /\ DOMAIN res.listen_ip_v4 \subseteq Descriptors(snap)
      /\ DOMAIN res.listen_ip_v6 \subseteq Descriptors(snap)
      /\ \A n \in Descriptors(snap) :
           /\ IF BindV4s(Content(snap, n)) = << >>
              THEN n \notin DOMAIN res.listen_ip_v4
              ELSE Get(res.listen_ip_v4, n, << >>) = BindV4s(Content(snap, n))
           /\ IF BindV6s(Content(snap, n)) = << >>
              THEN n \notin DOMAIN res.listen_ip_v6
              ELSE Get(res.listen_ip_v6, n, << >>) = BindV6s(Content(snap, n))

C18_Witness ==
    /\ Loaded
    /\ \E n \in Descriptors(snap), m \in Descriptors(snap) :
         /\ Get(res.listen_ip_v4, n, << >>) = <<V4("10.0.0.3"), V4("10.0.0.1")>>
         /\ Get(res.listen_ip_v6, n, << >>) = <<V6("fd00::2"), V6("fd00::1")>>
         /\ Len(Content(snap, n)) > 1
         /\ m \in DOMAIN res.listen_ip_v6
         /\ m \notin DOMAIN res.listen_ip_v4

\* what parse_configs may return for a directory, over the orders in which the
\* hash map of container IPs may be gone through
ResultsOf(d) ==
    LET r == RunLoop(d, [ok |-> TRUE, val |-> EmptyTables], Listing(d))
    IN  IF ~r.ok THEN {r}
        ELSE {Finish(r.val, order) : order \in Orders(DOMAIN r.val.container_ips)}

\* C19: the pid file is skipped silently. Whatever a file named aardvark.pid
\* holds, parse_configs returns what it returns for the same directory without
\* that file, and the name is no key of a listen map or of an index and no
\* network of a source IP.
C19_PidFileIgnored ==
    (phase = "done" /\ AARDVARK_PID_FILE \in Names(snap)) =>
      /\ res \in ResultsOf(Remove(snap, AARDVARK_PID_FILE))
      /\ res.ok =>
           /\ AARDVARK_PID_FILE \notin DOMAIN res.listen_ip_v4 \cup DOMAIN res.listen_ip_v6
           /\ AARDVARK_PID_FILE \notin DOMAIN res.backend.name_mappings
           /\ AARDVARK_PID_FILE \notin DOMAIN res.backend.reverse_mappings
           /\ \A ip \in DOMAIN res.backend.ip_mappings :
                AARDVARK_PID_FILE \notin Range(res.backend.ip_mappings[ip])

C19_Witness ==
    /\ Loaded
    /\ AARDVARK_PID_FILE \in Names(snap)
    /\ Content(snap, AARDVARK_PID_FILE) = PidContent
    /\ Head(snap).name = AARDVARK_PID_FILE
    /\ DOMAIN res.backend.name_mappings # {}

\* the address lists (v4 then v6) of the lines that declare x, one after the
\* other in line order
RECURSIVE SharedAliasIps(_, _)
SharedAliasIps(entries, x) ==
    IF entries = << >> THEN << >>
    ELSE LET e == Head(entries)
         IN  (IF x \in Range(e.aliases) THEN e.v4 \o e.v6 ELSE << >>)
             \o SharedAliasIps(Tail(entries), x)

\* C20: alias collision. When two or more container lines of network n declare
\* the alias x, name_mappings[n][x] is the concatenation, in line order, of the
\* address lists (v4 then v6) of every such line, and lookup(s, x) from a source
\* on n lists the addresses of every one of these lines.
C20_AliasCollision ==
    Loaded =>
      LET E == CtrEntries(snap) IN
      \A n \in DOMAIN E :
        \A x \in UNION {Range(E[n][i].aliases) : i \in DOMAIN E[n]} :
          Cardinality({i \in DOMAIN E[n] : x \in Range(E[n][i].aliases)}) >= 2 =>
            /\ NameIps(res.backend, n, x) = SharedAliasIps(E[n], x)
            /\ \A s \in SourceIps :
                 n \in Range(IpNetworks(res.backend, s)) =>
                   \A i \in DOMAIN E[n] :
                     x \in Range(E[n][i].aliases) =>
                       Range(E[n][i].v4 \o E[n][i].v6)
                         \subseteq Range(lookup(res.backend, s, x).ips)

\* line k is the last line processed that lists address a
LastListing(L, k, a) ==
    /\ a \in RawAddrs(L[k])
    /\ \A m \in DOMAIN L : a \in RawAddrs(L[m]) => m <= k

\* C21: when an address is listed by more than one container line, in one
\* descriptor or in several, its entry in ctr_dns_server is the dns-server list
\* of the line processed last, whatever an earlier line recorded; a last line
\* of four fields resets an earlier override to None.
C21_LaterLineReplacesUpstream ==
    Loaded =>
      LET L == ListedLines(snap) IN
      \A j \in DOMAIN L, k \in DOMAIN L :
        \A a \in RawAddrs(L[j]) :
          (j < k /\ LastListing(L, k, a)) =>
            /\ a \in DOMAIN res.backend.ctr_dns_server
            /\ res.backend.ctr_dns_server[a] = FifthOfFive(L[k])
            /\ Len(L[k]) = 4 => res.backend.ctr_dns_server[a] = None

\* two descriptors: the first records an override for 10.0.0.2, a line of the
\* second without a dns-server field has reset it
C21_Witness ==
    /\ Loaded
    /\ Len(snap) = 2
    /\ \E i \in DOMAIN RawCtrLines(snap[1].lines) :
         LET parts == RawCtrLines(snap[1].lines)[i]
         IN  V4("10.0.0.2") \in RawAddrs(parts) /\ FifthOfFive(parts).some
    /\ RawCtrLines(snap[2].lines) # << >>
    /\ LET parts == RawCtrLines(snap[2].lines)[Len(RawCtrLines(snap[2].lines))]
       IN  V4("10.0.0.2") \in RawAddrs(parts) /\ Len(parts) = 4
    /\ Get(res.backend.ctr_dns_server, V4("10.0.0.2"), << >>) = None

\* a line of exactly five fields whose fifth field holds an item that is no IP
DnsUnparsable(parts) ==
    Len(parts) = 5 /\ HasItemOutside(parts[5], V4Literals \cup V6Literals)

\* C22: in descriptors whose lines are well formed in their first four fields,
\* a line of six or more fields causes no error (parse_configs fails only for a
\* five-field line whose fifth field does not parse) and its addresses are
\* recorded with None; an address has an upstream list only if the last line
\* listing it has exactly five fields and a non-empty fifth field.
C22_ExtraFieldsDropUpstream ==
    phase = "done" =>
      LET L == ListedLines(snap) IN
      /\ ~res.ok => \E k \in DOMAIN L : DnsUnparsable(L[k])
      /\ res.ok =>
           \A k \in DOMAIN L : \A a \in RawAddrs(L[k]) :
             LastListing(L, k, a) =>
               /\ a \in DOMAIN res.backend.ctr_dns_server
               /\ Len(L[k]) >= 6 => res.backend.ctr_dns_server[a] = None
               /\ res.backend.ctr_dns_server[a].some
                    <=> (Len(L[k]) = 5 /\ L[k][5] # << >>)

\* a line of six fields whose fifth field does not parse was accepted after a
\* five-field line had recorded a list for the same address
C22_Witness ==
    /\ Loaded
    /\ LET L == ListedLines(snap) IN
       \E j \in DOMAIN L, k \in DOMAIN L :
         /\ j < k
         /\ V4("10.0.0.3") \in RawAddrs(L[j])
         /\ FifthOfFive(L[j]).some
         /\ LastListing(L, k, V4("10.0.0.3"))
         /\ Len(L[k]) = 6
         /\ HasItemOutside(L[k][5], V4Literals \cup V6Literals)
    /\ Get(res.backend.ctr_dns_server, V4("10.0.0.3"), << >>) = None

====
